---- MODULE Spec2Model ----
(***************************************************************************)
(* Model of the crypto-mac crate (src/crypto-mac/src/lib.rs): the Mac      *)
(* trait with its two provided methods new_varkey and verify, and the      *)
(* MacResult wrapper with its fixed-time equality.                         *)
(*                                                                         *)
(* The trait's required methods (new, input, result) have no body in the   *)
(* crate; they are modelled by a reference implementor MacImpl that        *)
(* follows their documentation.  constant_time_eq comes from an external   *)
(* crate and is modelled as the OR-of-XOR fold.                            *)
(***************************************************************************)
EXTENDS Integers, Sequences, FiniteSets, TLC

(* ------------------------------ bounds --------------------------------- *)

\* Mac::KeySize of the modelled implementor, in bytes.
KeySize == 2

\* Mac::OutputSize of the modelled implementor, in bytes.
OutputSize == 2

\* Largest number of bytes an instance accumulates before a finalization.
MaxMsgLen == 2

\* Largest slice handed to one input() call.
MaxDataLen == 2

\* Largest N of the MacResult<N> values compared in SpecEq.
MaxN == 2

(* ------------------------------ bytes ---------------------------------- *)

\* u8
ByteWidth == 8

ByteModulus == 2 ^ ByteWidth

\* Byte values the key slices are drawn from.
KeyBytes == {1, 254}

\* Byte values the input slices are drawn from.
MsgBytes == {0, 255}

\* Byte values the compared arrays are drawn from.
EqBytes == {0, 1, 128, 255}

\* All sequences over S of length lo..hi.
SeqsOf(S, lo, hi) == UNION {[1..n -> S] : n \in lo..hi}

RECURSIVE BitXor(_, _, _)
\* x ^ y on w-bit unsigned integers
BitXor(x, y, w) ==
    IF w = 0 THEN 0
    ELSE (((x % 2) + (y % 2)) % 2) + 2 * BitXor(x \div 2, y \div 2, w - 1)

RECURSIVE BitOr(_, _, _)
\* x | y on w-bit unsigned integers
BitOr(x, y, w) ==
    IF w = 0 THEN 0
    ELSE (IF (x % 2) + (y % 2) > 0 THEN 1 ELSE 0)
         + 2 * BitOr(x \div 2, y \div 2, w - 1)

(* ------------------------- Option / Result ----------------------------- *)

None == <<>>

Some(x) == <<x>>

Ok == [tag |-> "Ok", val |-> <<>>]

ErrMacError == [tag |-> "Err(MacError)", val |-> <<>>]

ErrInvalidKeyLength == [tag |-> "Err(InvalidKeyLength)", val |-> <<>>]

Unit == [tag |-> "()", val |-> <<>>]

Panic == [tag |-> "panic", val |-> <<>>]

\* A returned MacResult, as a return value of an operation.
RetMacResult(r) == [tag |-> "MacResult", val |-> r.code]

(* ----------------------------- MacResult ------------------------------- *)

\* MacResult::new
MacResult_new(code) == [code |-> code]

\* MacResult::code
MacResult_code(self) == self.code

\* GenericArray::<u8, N>::from_slice / clone_from_slice: the slice's bytes as
\* an array of n bytes; panics unless the slice has exactly n bytes.
GenericArray_from_slice(slice, n) ==
    IF Len(slice) = n THEN [ok |-> TRUE, arr |-> slice]
    ELSE [ok |-> FALSE, arr |-> <<>>]

RECURSIVE constant_time_ne(_, _, _, _, _)
\* The fold of constant_time_eq: tmp |= a[i] ^ b[i] for every i, no branch on
\* the bytes.  Returns the accumulator and the number of byte pairs examined.
constant_time_ne(a, b, i, tmp, examined) ==
    IF i > Len(a) THEN [tmp |-> tmp, examined |-> examined]
    ELSE constant_time_ne(a, b, i + 1,
                          BitOr(tmp, BitXor(a[i], b[i], ByteWidth), ByteWidth),
                          examined + 1)

\* constant_time_eq(a, b): a.len() == b.len() && constant_time_ne(a, b) == 0
constant_time_eq(a, b) ==
    IF Len(a) # Len(b) THEN [eq |-> FALSE, examined |-> 0]
    ELSE LET r == constant_time_ne(a, b, 1, 0, 0)
         IN [eq |-> (r.tmp = 0), examined |-> r.examined]

RECURSIVE slice_eq(_, _, _, _)
\* The ordinary slice equality: returns at the first differing byte.
slice_eq(a, b, i, examined) ==
    IF i > Len(a) THEN [eq |-> TRUE, examined |-> examined]
    ELSE IF a[i] # b[i] THEN [eq |-> FALSE, examined |-> examined + 1]
    ELSE slice_eq(a, b, i + 1, examined + 1)

\* Mutant of MacResult_eq: the derived PartialEq (short-circuiting compare).
MacResult_eq_derived(self, x) == slice_eq(self.code, x.code, 1, 0)

\* Mutant of MacResult_eq: compares self with itself.
MacResult_eq_self(self, x) == constant_time_eq(self.code, self.code)

\* impl PartialEq for MacResult: eq
MacResult_eq(self, x) == constant_time_eq(self.code, x.code)

(* ------------------- the implementor of the trait ---------------------- *)

TagModulus == ByteModulus ^ OutputSize

RECURSIVE Absorb(_, _)
Absorb(h, s) ==
    IF s = <<>> THEN h
    ELSE Absorb((h * 31 + Head(s) + 1) % TagModulus, Tail(s))

\* The tag of message msg under key: OutputSize bytes.
TagOf(key, msg) ==
    LET h == Absorb(Absorb(7, key), msg)
    IN [i \in 1..OutputSize |-> (h \div (ByteModulus ^ (i - 1))) % ByteModulus]

\* Mac::new
MacImpl_new(key) == [key |-> key, buf |-> <<>>]

\* Mac::input
MacImpl_input(self, data) ==
    [self |-> [self EXCEPT !.buf = self.buf \o data], ret |-> Unit]

\* Mutant of MacImpl_result: the accumulated input is not reset.
MacImpl_result_noreset(self) ==
    [self |-> self, ret |-> MacResult_new(TagOf(self.key, self.buf))]

\* Mac::result
MacImpl_result(self) ==
    [self |-> [self EXCEPT !.buf = <<>>],
     ret  |-> MacResult_new(TagOf(self.key, self.buf))]

(* ------------------- the trait's provided methods ---------------------- *)

\* Mutant of new_varkey: the length test is < instead of !=.
new_varkey_lt(key) ==
    IF Len(key) < KeySize
    THEN [self |-> None, ret |-> ErrInvalidKeyLength, calls |-> <<>>]
    ELSE LET k == GenericArray_from_slice(key, KeySize)
         IN IF k.ok
            THEN [self |-> Some(MacImpl_new(k.arr)), ret |-> Ok,
                  calls |-> <<"new">>]
            ELSE [self |-> None, ret |-> Panic, calls |-> <<>>]

\* Mac::new_varkey.  self is the instance returned in Ok, if any; calls lists
\* the trait methods invoked.
new_varkey(key) ==
    IF Len(key) # KeySize
    THEN [self |-> None, ret |-> ErrInvalidKeyLength, calls |-> <<>>]
    ELSE LET k == GenericArray_from_slice(key, KeySize)
         IN IF k.ok
            THEN [self |-> Some(MacImpl_new(k.arr)), ret |-> Ok,
                  calls |-> <<"new">>]
            ELSE [self |-> None, ret |-> Panic, calls |-> <<>>]

\* Mutant of verify: the comparison is dropped, any code of the right length
\* is accepted.
verify_nocompare(self, code) ==
    IF OutputSize # Len(code)
    THEN [self |-> self, ret |-> ErrMacError, calls |-> <<>>]
    ELSE [self |-> MacImpl_result(self).self, ret |-> Ok,
          calls |-> <<"result">>]

\* Mutant of verify: a wrong length is reported by an error of its own.
verify_lenerror(self, code) ==
    IF OutputSize # Len(code)
    THEN [self |-> self, ret |-> ErrInvalidKeyLength, calls |-> <<>>]
    ELSE LET result == MacResult_new(GenericArray_from_slice(code, OutputSize).arr)
             r      == MacImpl_result(self)
         IN IF ~MacResult_eq(result, r.ret).eq
            THEN [self |-> r.self, ret |-> ErrMacError, calls |-> <<"result">>]
            ELSE [self |-> r.self, ret |-> Ok, calls |-> <<"result">>]

\* Mutant of verify: the test of the comparison is inverted.
verify_inverted(self, code) ==
    IF OutputSize # Len(code)
    THEN [self |-> self, ret |-> ErrMacError, calls |-> <<>>]
    ELSE LET result == MacResult_new(GenericArray_from_slice(code, OutputSize).arr)
             r      == MacImpl_result(self)
         IN IF MacResult_eq(result, r.ret).eq
            THEN [self |-> r.self, ret |-> ErrMacError, calls |-> <<"result">>]
            ELSE [self |-> r.self, ret |-> Ok, calls |-> <<"result">>]

\* Mutant of verify: result() is taken before the length test.
verify_resultfirst(self, code) ==
    LET r == MacImpl_result(self)
    IN IF OutputSize # Len(code)
       THEN [self |-> r.self, ret |-> ErrMacError, calls |-> <<"result">>]
       ELSE LET result == MacResult_new(GenericArray_from_slice(code, OutputSize).arr)
            IN IF ~MacResult_eq(result, r.ret).eq
               THEN [self |-> r.self, ret |-> ErrMacError, calls |-> <<"result">>]
               ELSE [self |-> r.self, ret |-> Ok, calls |-> <<"result">>]

\* Mac::verify.  self is the instance after the call; calls lists the trait
\* methods invoked.
verify(self, code) ==
    IF OutputSize # Len(code)
    THEN [self |-> self, ret |-> ErrMacError, calls |-> <<>>]
    ELSE LET result == MacResult_new(GenericArray_from_slice(code, OutputSize).arr)
             r      == MacImpl_result(self)
         IN IF ~MacResult_eq(result, r.ret).eq
            THEN [self |-> r.self, ret |-> ErrMacError, calls |-> <<"result">>]
            ELSE [self |-> r.self, ret |-> Ok, calls |-> <<"result">>]

(* ------------------------------ state ---------------------------------- *)

VARIABLES
    mac,    \* the caller's instance: None before construction, else Some(m)
    op,     \* the last operation called
    arg,    \* its byte-slice argument
    ret,    \* its return value
    calls,  \* the trait methods it invoked on the instance
    pre,    \* mac and hist as they were when it was called
    hist,   \* the key the instance was made with, the input fed since the
            \* last result/verify call (sinceFinal) and since result() last
            \* ran (sinceResult), and whether result() has run and its last
            \* run covered some input (cleared)
    a, b,   \* SpecEq: the two MacResult<N> values compared
    cmp     \* SpecEq: None, or Some(outcome of a == b)

vars == <<mac, op, arg, ret, calls, pre, hist, a, b, cmp>>

macVars == <<mac, op, arg, ret, calls, pre, hist>>

eqVars == <<a, b, cmp>>

NoHist ==
    [key |-> <<>>, sinceFinal |-> <<>>, sinceResult |-> <<>>,
     cleared |-> FALSE]

\* The history of an instance just made with key.
NewHist(key) == [NoHist EXCEPT !.key = key]

\* Keys of the size the type demands.
FixedKeys == SeqsOf(KeyBytes, KeySize, KeySize)

\* Key slices of any length up to one more than KeySize.
VarKeys == SeqsOf(KeyBytes, 0, KeySize + 1)

\* Slices handed to input().
Datas == SeqsOf(MsgBytes, 0, MaxDataLen)

\* The bits flipped in the candidate codes: the lowest and the highest.
FlipBits == {0, ByteWidth - 1}

\* code with bit k of byte i flipped.
FlipBit(code, i, k) == [code EXCEPT ![i] = BitXor(code[i], 2 ^ k, ByteWidth)]

\* Candidate codes handed to verify() on instance m: the true tag, the tag
\* with one bit flipped (a bit of FlipBits in any byte), a fixed code, and
\* codes one byte short, one byte long and empty.
Codes(m) ==
    LET t == TagOf(m.key, m.buf)
    IN {t}
       \cup {FlipBit(t, i, k) : i \in 1..OutputSize, k \in FlipBits}
       \cup {[i \in 1..OutputSize |-> 0]}
       \cup {SubSeq(t, 1, OutputSize - 1), t \o <<0>>, <<>>}

\* The tag a fresh instance keyed with key returns for input(msg); result().
FreshTag(key, msg) ==
    MacImpl_result(MacImpl_input(MacImpl_new(key), msg).self).ret

Init ==
    /\ mac = None
    /\ op = "none"
    /\ arg = <<>>
    /\ ret = Unit
    /\ calls = <<>>
    /\ pre = [mac |-> None, hist |-> NoHist]
    /\ hist = NoHist
    /\ a = MacResult_new(<<>>)
    /\ b = MacResult_new(<<>>)
    /\ cmp = None

\* let m = Mac::new(key)
New ==
    \E key \in FixedKeys :
        /\ mac = None
        /\ mac' = Some(MacImpl_new(key))
        /\ op' = "new"
        /\ arg' = key
        /\ ret' = Ok
        /\ calls' = <<"new">>
        /\ pre' = [mac |-> mac, hist |-> hist]
        /\ hist' = NewHist(key)
        /\ UNCHANGED eqVars

\* let m = Mac::new_varkey(key)
NewVarkey ==
    \E key \in VarKeys :
        /\ mac = None
        /\ LET r == new_varkey(key)
           IN /\ mac' = r.self
              /\ ret' = r.ret
              /\ calls' = r.calls
              /\ hist' = IF r.self = None THEN NoHist ELSE NewHist(key)
        /\ op' = "new_varkey"
        /\ arg' = key
        /\ pre' = [mac |-> mac, hist |-> hist]
        /\ UNCHANGED eqVars

\* m.input(data)
Input ==
    \E data \in Datas :
        /\ mac # None
        /\ Len(mac[1].buf) + Len(data) <= MaxMsgLen
        /\ LET r == MacImpl_input(mac[1], data)
           IN /\ mac' = Some(r.self)
              /\ ret' = r.ret
        /\ op' = "input"
        /\ arg' = data
        /\ calls' = <<"input">>
        /\ pre' = [mac |-> mac, hist |-> hist]
        /\ hist' = [hist EXCEPT !.sinceFinal = @ \o data,
                                !.sinceResult = @ \o data]
        /\ UNCHANGED eqVars

\* m.result()
Result ==
    /\ mac # None
    /\ LET r == MacImpl_result(mac[1])
       IN /\ mac' = Some(r.self)
          /\ ret' = RetMacResult(r.ret)
    /\ op' = "result"
    /\ arg' = <<>>
    /\ calls' = <<"result">>
    /\ pre' = [mac |-> mac, hist |-> hist]
    /\ hist' = [hist EXCEPT !.sinceFinal = <<>>, !.sinceResult = <<>>,
                            !.cleared = (hist.sinceResult # <<>>)]
    /\ UNCHANGED eqVars

\* Mutant of VerifyCode: verify takes the instance by value, so a failed
\* verification leaves the caller without it.
VerifyCode_consuming(code) ==
    /\ mac # None
    /\ LET r == verify(mac[1], code)
       IN /\ mac' = IF r.ret = Ok THEN Some(r.self) ELSE None
          /\ ret' = r.ret
          /\ calls' = r.calls
          /\ hist' = IF r.calls = <<>>
                      THEN [hist EXCEPT !.sinceFinal = <<>>]
                      ELSE [hist EXCEPT !.sinceFinal = <<>>,
                                        !.sinceResult = <<>>,
                                        !.cleared =
                                            (hist.sinceResult # <<>>)]
    /\ op' = "verify"
    /\ arg' = code
    /\ pre' = [mac |-> mac, hist |-> hist]
    /\ UNCHANGED eqVars

\* m.verify(code)
VerifyCode(code) ==
    /\ mac # None
    /\ LET r == verify(mac[1], code)
       IN /\ mac' = Some(r.self)
          /\ ret' = r.ret
          /\ calls' = r.calls
          /\ hist' = IF r.calls = <<>>
                      THEN [hist EXCEPT !.sinceFinal = <<>>]
                      ELSE [hist EXCEPT !.sinceFinal = <<>>,
                                        !.sinceResult = <<>>,
                                        !.cleared =
                                            (hist.sinceResult # <<>>)]
    /\ op' = "verify"
    /\ arg' = code
    /\ pre' = [mac |-> mac, hist |-> hist]
    /\ UNCHANGED eqVars

Verify ==
    /\ mac # None
    /\ \E code \in Codes(mac[1]) : VerifyCode(code)

Next == New \/ NewVarkey \/ Input \/ Result \/ Verify

Spec == Init /\ [][Next]_vars

(* ----------------- MacResult equality as a pure function --------------- *)

\* Every pair of MacResult<N> values, N in 0..MaxN.
InitEq ==
    /\ mac = None
    /\ op = "none"
    /\ arg = <<>>
    /\ ret = Unit
    /\ calls = <<>>
    /\ pre = [mac |-> None, hist |-> NoHist]
    /\ hist = NoHist
    /\ \E n \in 0..MaxN :
          /\ a \in {MacResult_new(c) : c \in SeqsOf(EqBytes, n, n)}
          /\ b \in {MacResult_new(c) : c \in SeqsOf(EqBytes, n, n)}
    /\ cmp = None

\* a == b
Eq ==
    /\ cmp = None
    /\ cmp' = Some(MacResult_eq(a, b))
    /\ UNCHANGED <<a, b>>
    /\ UNCHANGED macVars

NextEq == Eq

SpecEq == InitEq /\ [][NextEq]_vars

(* ------------------------------ claims --------------------------------- *)

\* An instance exists once a constructor has returned one.
Constructed == op \in {"new", "input", "result", "verify"}
               \/ (op = "new_varkey" /\ ret = Ok)

\* The tag result() returns on the instance verify was called on.
TrueTag == MacResult_code(MacImpl_result(pre.mac[1]).ret)

\* C1: every verify call, of a code of any length and whatever it returns,
\* resets the instance: the tag of a later result() is the tag a fresh
\* instance with the same key gives for the input fed after that verify.
C1_VerifyAlwaysResets ==
    op = "result" =>
        ret = RetMacResult(FreshTag(hist.key, pre.hist.sinceFinal))

\* C2: for a code of OutputSize bytes, verify returns Ok(()) iff the code is
\* byte-for-byte the tag result() produces for the accumulated input, and
\* Err(MacError) otherwise; a code one bit off the true tag is rejected.
C2_VerifyOkIffTagMatches ==
    (op = "verify" /\ Len(arg) = OutputSize) =>
        /\ ret \in {Ok, ErrMacError}
        /\ (ret = Ok <=> arg = TrueTag)
        /\ \A i \in 1..OutputSize, k \in 0..(ByteWidth - 1) :
              arg = FlipBit(TrueTag, i, k) => ret = ErrMacError

C2_Witness ==
    /\ op = "verify"
    /\ pre.mac[1].buf # <<>>
    /\ arg = FlipBit(TrueTag, OutputSize, ByteWidth - 1)
    /\ ret = ErrMacError

\* C3: verify fails on every code whose length is not OutputSize, and the
\* value it returns then is the very value it returns for a code of the
\* right length and wrong content: Err(MacError).
C3_WrongLengthSameError ==
    /\ (op = "verify" /\ Len(arg) # OutputSize) => ret = ErrMacError
    /\ (op = "verify" /\ ret # Ok) => ret = ErrMacError
    /\ mac # None =>
          \A c1, c2 \in Codes(mac[1]) :
              (/\ Len(c1) # OutputSize
               /\ Len(c2) = OutputSize
               /\ verify(mac[1], c2).ret # Ok)
              => verify(mac[1], c1).ret = verify(mac[1], c2).ret

C3_Witness ==
    /\ op = "verify"
    /\ Len(arg) = OutputSize - 1
    /\ ret = ErrMacError

\* C4: new_varkey returns Err(InvalidKeyLength) iff the key's length is not
\* KeySize, and then Mac::new is not invoked and no instance exists; else it
\* returns Ok with exactly the instance Mac::new makes from the same bytes.
C4_NewVarkey ==
    op = "new_varkey" =>
        /\ (ret = ErrInvalidKeyLength <=> Len(arg) # KeySize)
        /\ (ret = ErrInvalidKeyLength => mac = None /\ calls = <<>>)
        /\ (ret # ErrInvalidKeyLength =>
               /\ ret = Ok
               /\ calls = <<"new">>
               /\ mac = Some(MacImpl_new(arg)))

C4_Witness ==
    /\ op = "new_varkey"
    /\ Len(arg) = KeySize + 1
    /\ ret = ErrInvalidKeyLength
    /\ mac = None

\* C5: for every N, 0 included, a == b on two MacResult<N> values is a
\* boolean that is true iff the two byte arrays are identical.
C5_EqIffIdentical ==
    cmp # None =>
        /\ cmp[1].eq \in BOOLEAN
        /\ (cmp[1].eq <=> a.code = b.code)

C5_Witness ==
    /\ cmp # None
    /\ Len(a.code) = MaxN
    /\ a.code # b.code
    /\ SubSeq(a.code, 1, MaxN - 1) = SubSeq(b.code, 1, MaxN - 1)
    /\ ~cmp[1].eq

\* C6: a == b examines exactly N byte pairs, whatever the contents, whether
\* or not the values are equal and wherever the first mismatch is.
C6_EqFixedWork ==
    cmp # None => cmp[1].examined = Len(a.code)

C6_Witness ==
    /\ cmp # None
    /\ Len(a.code) = MaxN
    /\ a.code[1] # b.code[1]
    /\ cmp[1].examined = MaxN

\* C7: result() clears the accumulated input and keeps the key: the tag it
\* returns is the tag a fresh instance with the same key returns for the
\* input fed since result() last ran, after any number of earlier rounds.
C7_ResultClearsInput ==
    op = "result" =>
        /\ ret = RetMacResult(FreshTag(hist.key, pre.hist.sinceResult))
        /\ mac = Some(MacImpl_new(hist.key))

C7_Witness ==
    /\ op = "result"
    /\ pre.hist.cleared
    /\ pre.hist.sinceResult # <<>>

\* C8: verify of the bytes of the tag that a fresh instance with the same
\* key returns for the same message returns Ok(()).
C8_RoundTrip ==
    (/\ op = "verify"
     /\ arg = MacResult_code(FreshTag(hist.key, pre.hist.sinceResult)))
    => ret = Ok

C8_Witness ==
    /\ op = "verify"
    /\ pre.hist.sinceResult # <<>>
    /\ arg = MacResult_code(FreshTag(hist.key, pre.hist.sinceResult))
    /\ ret = Ok

\* C9: once an instance exists it stays, and input, result and verify are
\* enabled on it after every operation, failed verify calls included.
C9_NoTerminalState ==
    Constructed =>
        /\ mac # None
        /\ ENABLED Input
        /\ ENABLED Result
        /\ ENABLED Verify

C9_Witness ==
    /\ op = "verify"
    /\ ret = ErrMacError
    /\ pre.hist.cleared
    /\ ENABLED Verify

====
